---- MODULE Spec2Model ----
(***************************************************************************)
(* Model of pbrdna/arguments.py: the module-level namespace `args` and     *)
(* parse_args(), which parses the command line into `args`, initialises    *)
(* the logger and then reconciles the parsed options against the files and *)
(* executables found in the environment.                                   *)
(*                                                                         *)
(* Floating point options (distance, step) are held in thousandths, so     *)
(* 0.001 is 1, 0.03 is 30 and 0.5 is 500.  An option token that is absent  *)
(* from the command line, and Python's None, are the empty sequence <<>>;  *)
(* a present value v is <<v>>.                                             *)
(***************************************************************************)
EXTENDS Integers, Sequences, FiniteSets, TLC

VARIABLES argv, files, gcon, args, pc, exc, logged, calls, runs, first

vars == <<argv, files, gcon, args, pc, exc, logged, calls, runs, first>>

\* ------------------------------------------------------------------------
\* Module constants (arguments.py lines 7-21), floats in thousandths.
NPROC == 1
MIN_DIST == 1
DIST == 30
STEP == 15
MAX_DIST == 500
CLUSTER_METHODS == {"nearest", "average", "furthest"}
DEFAULT_METHOD == "average"
DEFAULT_ALIGNMENT_REFERENCE == "silva.both.align"
DEFAULT_CHIMERA_REFERENCE == "silva.gold.align"
DEFAULT_OUTPUT_DIR == "rna_pipeline_run"

\* ------------------------------------------------------------------------
\* Bounds of the model.
MaxNProc == 1
MaxRuns == 2

None == <<>>
Some(v) == <<v>>

\* File names that may or may not exist in the environment.
FileNames ==
  {DEFAULT_ALIGNMENT_REFERENCE, DEFAULT_CHIMERA_REFERENCE, "user.ref", "user.chim"}

\* Values the user may put on the command line; None is "option not given".
NProcInputs == {None} \cup {Some(n) : n \in -1..MaxNProc}
DistanceInputs ==
  {None, Some(MIN_DIST - 1), Some(MIN_DIST), Some(MAX_DIST), Some(MAX_DIST + 1), Some(600)}
AlignmentInputs == {None, Some("user.ref")}
ChimeraInputs == {None, Some("user.ref"), Some("user.chim")}
MethodInputs == {None, Some("furthest"), Some("bogus")}

CommandLines ==
  [alignment_reference : AlignmentInputs,
   chimera_reference   : ChimeraInputs,
   disable_consensus   : BOOLEAN,
   nproc               : NProcInputs,
   distance            : DistanceInputs,
   clusteringMethod    : MethodInputs,
   version             : BOOLEAN]

\* ------------------------------------------------------------------------
\* pbrdna.utils (imported at line 4).

\* validate_file: the path when the file exists, None otherwise.
validate_file(path) == IF path \in files THEN Some(path) ELSE None

\* which: the path of the executable when it is on the search path.
which(name) == IF name = "gcon.py" /\ gcon THEN Some(name) ELSE None

\* in_range: value within [minimum, maximum], a None bound being unbounded.
in_range(value, minimum, maximum) ==
  /\ (minimum # None => value >= minimum[1])
  /\ (maximum # None => value <= maximum[1])

\* validate_int / validate_float: TRUE when the call returns, FALSE when it
\* raises RangeError.
validate_int(name, value, minimum, maximum) == in_range(value, minimum, maximum)

validate_float(name, value, minimum, maximum) == in_range(value, minimum, maximum)

\* ------------------------------------------------------------------------
\* argparse: the value of an option is the user's token, else its default.
Opt(token, default) == IF token = None THEN default ELSE token[1]

\* The namespace parser.parse_args( namespace=args ) fills in.
Namespace(a) ==
  [alignment_reference |-> Opt(a.alignment_reference, DEFAULT_ALIGNMENT_REFERENCE),
   chimera_reference   |-> Opt(a.chimera_reference, DEFAULT_CHIMERA_REFERENCE),
   enable_consensus    |-> ~a.disable_consensus,
   nproc               |-> Opt(a.nproc, NPROC),
   distance            |-> Opt(a.distance, DIST),
   step                |-> STEP,
   clusteringMethod    |-> Opt(a.clusteringMethod, DEFAULT_METHOD),
   output_dir          |-> DEFAULT_OUTPUT_DIR]

\* An empty argparse.Namespace() (line 23).
EmptyNamespace == [x \in {} |-> x]

Log(level, msg) == Append(logged, <<level, msg>>)

Call(name) == Append(calls, name)

\* ------------------------------------------------------------------------
Init ==
  /\ argv \in CommandLines
  /\ files \in SUBSET FileNames
  /\ gcon \in BOOLEAN
  /\ args = EmptyNamespace
  /\ pc = "parse_args"
  /\ exc = "None"
  /\ logged = <<>>
  /\ calls = <<>>
  /\ runs = 0
  /\ first = <<>>

\* Line 145: parser.parse_args( namespace=args ).  The options are handled
\* in command-line order: --version prints and raises SystemExit (lines
\* 136-139), a --clustering_method outside CLUSTER_METHODS ends in the
\* parser's usage error (line 96), whichever comes first.
\* Variant: the version action prints but does not raise SystemExit.
parse_args_VersionExit_NoExit ==
  /\ pc = "parse_args"
  /\ argv.version
  /\ Opt(argv.clusteringMethod, DEFAULT_METHOD) \in CLUSTER_METHODS
  /\ args' = Namespace(argv)
  /\ calls' = Call("print_version")
  /\ pc' = "initialize_logger"
  /\ UNCHANGED <<argv, files, gcon, exc, logged, runs, first>>

parse_args_VersionExit ==
  /\ pc = "parse_args"
  /\ argv.version
  /\ args' = Namespace([argv EXCEPT !.clusteringMethod =
                          IF Opt(@, DEFAULT_METHOD) \in CLUSTER_METHODS THEN @ ELSE None])
  /\ calls' = Call("print_version")
  /\ exc' = "SystemExit"
  /\ pc' = "raised"
  /\ UNCHANGED <<argv, files, gcon, logged, runs, first>>

parse_args_UsageError ==
  /\ pc = "parse_args"
  /\ Opt(argv.clusteringMethod, DEFAULT_METHOD) \notin CLUSTER_METHODS
  /\ args' = Namespace([argv EXCEPT !.clusteringMethod = None])
  /\ exc' = "SystemExit"
  /\ pc' = "raised"
  /\ UNCHANGED <<argv, files, gcon, logged, calls, runs, first>>

parse_args_Parsed ==
  /\ pc = "parse_args"
  /\ ~argv.version
  /\ Opt(argv.clusteringMethod, DEFAULT_METHOD) \in CLUSTER_METHODS
  /\ args' = Namespace(argv)
  /\ pc' = "initialize_logger"
  /\ UNCHANGED <<argv, files, gcon, exc, logged, calls, runs, first>>

parse_args_Parse ==
  \/ parse_args_VersionExit
  \/ parse_args_UsageError
  \/ parse_args_Parsed

\* Line 146: initialize_logger( log, stream=sys.stdout, debug=args.debug ).
parse_args_InitializeLogger ==
  /\ pc = "initialize_logger"
  /\ calls' = Call("initialize_logger")
  /\ pc' = "alignment_reference"
  /\ UNCHANGED <<argv, files, gcon, args, exc, logged, runs, first>>

\* Variant: a missing alignment reference is only warned about and replaced
\* by the default name.
parse_args_AlignmentReference_Fallback ==
  /\ pc = "alignment_reference"
  /\ calls' = Call("validate_file")
  /\ IF validate_file(args.alignment_reference) = None
       THEN /\ logged' = Log("warn", "no_alignment_reference")
            /\ args' = [args EXCEPT !.alignment_reference = DEFAULT_ALIGNMENT_REFERENCE]
       ELSE UNCHANGED <<args, logged>>
  /\ pc' = "chimera_reference"
  /\ UNCHANGED <<argv, files, gcon, exc, runs, first>>

\* Lines 149-152: the alignment reference is mandatory.
parse_args_AlignmentReference ==
  /\ pc = "alignment_reference"
  /\ calls' = Call("validate_file")
  /\ IF validate_file(args.alignment_reference) = None
       THEN /\ logged' = Log("error", "no_alignment_reference")
            /\ exc' = "ValueError"
            /\ pc' = "raised"
       ELSE /\ pc' = "chimera_reference"
            /\ UNCHANGED <<exc, logged>>
  /\ args' = args
  /\ UNCHANGED <<argv, files, gcon, runs, first>>

\* Variant: the fallback is warned about but never assigned.
parse_args_ChimeraReference_WarnOnly ==
  /\ pc = "chimera_reference"
  /\ calls' = Call("validate_file")
  /\ IF validate_file(args.chimera_reference) = None
       THEN logged' = Log("warn", "chimera_fallback")
       ELSE UNCHANGED logged
  /\ pc' = "enable_consensus"
  /\ UNCHANGED <<argv, files, gcon, args, exc, runs, first>>

\* Variant: the fallback is the default alignment reference name, not the
\* alignment reference that was validated.
parse_args_ChimeraReference_DefaultName ==
  /\ pc = "chimera_reference"
  /\ calls' = Call("validate_file")
  /\ IF validate_file(args.chimera_reference) = None
       THEN /\ logged' = Log("warn", "chimera_fallback")
            /\ args' = [args EXCEPT !.chimera_reference = DEFAULT_ALIGNMENT_REFERENCE]
       ELSE UNCHANGED <<args, logged>>
  /\ pc' = "enable_consensus"
  /\ UNCHANGED <<argv, files, gcon, exc, runs, first>>

\* Variant: the assignment is the wrong way round.
parse_args_ChimeraReference_Swapped ==
  /\ pc = "chimera_reference"
  /\ calls' = Call("validate_file")
  /\ IF validate_file(args.chimera_reference) = None
       THEN /\ logged' = Log("warn", "chimera_fallback")
            /\ args' = [args EXCEPT !.alignment_reference = args.chimera_reference]
       ELSE UNCHANGED <<args, logged>>
  /\ pc' = "enable_consensus"
  /\ UNCHANGED <<argv, files, gcon, exc, runs, first>>

\* Lines 154-157: a missing chimera reference falls back to the alignment
\* reference, with a warning.
parse_args_ChimeraReference ==
  /\ pc = "chimera_reference"
  /\ calls' = Call("validate_file")
  /\ IF validate_file(args.chimera_reference) = None
       THEN /\ logged' = Log("warn", "chimera_fallback")
            /\ args' = [args EXCEPT !.chimera_reference = args.alignment_reference]
       ELSE UNCHANGED <<args, logged>>
  /\ pc' = "enable_consensus"
  /\ UNCHANGED <<argv, files, gcon, exc, runs, first>>

\* Variant: the warning is logged but the flag is left alone.
parse_args_EnableConsensus_WarnOnly ==
  /\ pc = "enable_consensus"
  /\ IF args.enable_consensus
       THEN /\ calls' = Call("which")
            /\ IF which("gcon.py") = None
                 THEN logged' = Log("warn", "consensus_disabled")
                 ELSE UNCHANGED logged
       ELSE UNCHANGED <<logged, calls>>
  /\ pc' = "validate_int"
  /\ UNCHANGED <<argv, files, gcon, args, exc, runs, first>>

\* Variant: the test forgets `args.enable_consensus and`.
parse_args_EnableConsensus_NoFlagTest ==
  /\ pc = "enable_consensus"
  /\ calls' = Call("which")
  /\ IF which("gcon.py") = None
       THEN /\ logged' = Log("warn", "consensus_disabled")
            /\ args' = [args EXCEPT !.enable_consensus = FALSE]
       ELSE UNCHANGED <<args, logged>>
  /\ pc' = "validate_int"
  /\ UNCHANGED <<argv, files, gcon, exc, runs, first>>

\* Variant: the flag is set to whether the helper was found.
parse_args_EnableConsensus_FollowHelper ==
  /\ pc = "enable_consensus"
  /\ calls' = Call("which")
  /\ IF which("gcon.py") = None /\ args.enable_consensus
       THEN logged' = Log("warn", "consensus_disabled")
       ELSE UNCHANGED logged
  /\ args' = [args EXCEPT !.enable_consensus = (which("gcon.py") # None)]
  /\ pc' = "validate_int"
  /\ UNCHANGED <<argv, files, gcon, exc, runs, first>>

\* Lines 159-162: consensus is switched off when gcon.py is not on the PATH.
\* `and` short-circuits: which() is called only when enable_consensus holds.
parse_args_EnableConsensus ==
  /\ pc = "enable_consensus"
  /\ IF args.enable_consensus
       THEN /\ calls' = Call("which")
            /\ IF which("gcon.py") = None
                 THEN /\ logged' = Log("warn", "consensus_disabled")
                      /\ args' = [args EXCEPT !.enable_consensus = FALSE]
                 ELSE UNCHANGED <<args, logged>>
       ELSE UNCHANGED <<args, logged, calls>>
  /\ pc' = "validate_int"
  /\ UNCHANGED <<argv, files, gcon, exc, runs, first>>

\* Line 165: validate_int( 'NumProc', args.nproc, minimum=0 ).
parse_args_ValidateNumProc ==
  /\ pc = "validate_int"
  /\ calls' = Call("validate_int")
  /\ IF validate_int("NumProc", args.nproc, Some(0), None)
       THEN /\ pc' = "validate_float"
            /\ exc' = exc
       ELSE /\ exc' = "RangeError"
            /\ pc' = "raised"
  /\ UNCHANGED <<argv, files, gcon, args, logged, runs, first>>

\* Variant: the maximum is not passed.
parse_args_ValidateDistance_NoMaximum ==
  /\ pc = "validate_float"
  /\ calls' = Call("validate_float")
  /\ IF validate_float("Distance", args.distance, Some(MIN_DIST), None)
       THEN /\ pc' = "done"
            /\ exc' = exc
       ELSE /\ exc' = "RangeError"
            /\ pc' = "raised"
  /\ UNCHANGED <<argv, files, gcon, args, logged, runs, first>>

\* Lines 166-167: validate_float( 'Distance', args.distance,
\* minimum=MIN_DIST, maximum=MAX_DIST ), then the function returns.
parse_args_ValidateDistance ==
  /\ pc = "validate_float"
  /\ calls' = Call("validate_float")
  /\ IF validate_float("Distance", args.distance, Some(MIN_DIST), Some(MAX_DIST))
       THEN /\ pc' = "done"
            /\ exc' = exc
       ELSE /\ exc' = "RangeError"
            /\ pc' = "raised"
  /\ UNCHANGED <<argv, files, gcon, args, logged, runs, first>>

\* The reconciliation rules (lines 148-167) applied once more to the
\* namespace a completed run left behind, in the same environment.  `first`
\* remembers what the first completed run produced and `runs` counts the
\* further runs started.
Reconcile_Again ==
  /\ pc = "done"
  /\ runs < MaxRuns
  /\ runs' = runs + 1
  /\ first' = IF first = None THEN Some([args |-> args, logged |-> logged]) ELSE first
  /\ pc' = "alignment_reference"
  /\ UNCHANGED <<argv, files, gcon, args, exc, logged, calls>>

Next ==
  \/ parse_args_Parse
  \/ parse_args_InitializeLogger
  \/ parse_args_AlignmentReference
  \/ parse_args_ChimeraReference
  \/ parse_args_EnableConsensus
  \/ parse_args_ValidateNumProc
  \/ parse_args_ValidateDistance

Spec == Init /\ [][Next]_vars

SpecRerun == Init /\ [][Next \/ Reconcile_Again]_vars

\* ------------------------------------------------------------------------
\* Vocabulary of the properties.

\* What line 145 assigned to the namespace in a run that got past parsing.
Parsed == Namespace(argv)

\* The command line was parsed without SystemExit.
ParseReturned == pc # "parse_args" /\ exc # "SystemExit"

AlignmentLocated == validate_file(Parsed.alignment_reference) # None
ChimeraLocated == validate_file(Parsed.chimera_reference) # None
HelperAbsent == which("gcon.py") = None
NumProcInRange == Parsed.nproc >= 0
DistanceInRange == Parsed.distance >= MIN_DIST /\ Parsed.distance <= MAX_DIST

\* parse_args has returned or raised.
Terminated == pc \in {"done", "raised"}

\* The rules whose line has been executed.
AlignmentRuleRan ==
  ParseReturned /\ pc \notin {"initialize_logger", "alignment_reference"}
ChimeraRuleRan ==
  AlignmentRuleRan /\ pc # "chimera_reference" /\ exc # "ValueError"
ConsensusRuleRan == ChimeraRuleRan /\ pc # "enable_consensus"

RECURSIVE CountIn(_, _)
CountIn(seq, x) ==
  IF seq = <<>> THEN 0
  ELSE (IF Head(seq) = x THEN 1 ELSE 0) + CountIn(Tail(seq), x)

Warnings(msg) == CountIn(logged, <<"warn", msg>>)
ErrorsLogged == Len(SelectSeq(logged, LAMBDA e : e[1] = "error"))

C2_FallbackNeverFails ==
  /\ (Terminated /\ AlignmentRuleRan /\ AlignmentLocated /\ ~ChimeraLocated) =>
        (pc = "done" /\ args.chimera_reference = args.alignment_reference)
  /\ (ChimeraRuleRan /\ ChimeraLocated) =>
        args.chimera_reference = Parsed.chimera_reference

\* C2 (amended): when the alignment reference is located and the chimera
\* reference is not, the run fails only if num_processes or distance is out
\* of range (with RangeError) and completes otherwise; once the chimera rule
\* has run chimera_reference equals alignment_reference; when the chimera
\* reference is located it keeps its parsed value.
C2_FallbackToAlignmentReference ==
  /\ (ChimeraRuleRan /\ ~ChimeraLocated) =>
        /\ args.chimera_reference = args.alignment_reference
        /\ args.chimera_reference = Parsed.alignment_reference
        /\ (pc = "raised" => exc = "RangeError" /\ ~(NumProcInRange /\ DistanceInRange))
        /\ (pc = "done" => NumProcInRange /\ DistanceInRange)
  /\ (ChimeraRuleRan /\ ChimeraLocated) =>
        args.chimera_reference = Parsed.chimera_reference

\* C2 witness: a completed run in which the fallback replaced a chimera
\* reference that differs from the alignment reference.
C2_Witness ==
  /\ pc = "done"
  /\ AlignmentLocated /\ ~ChimeraLocated
  /\ Parsed.chimera_reference # Parsed.alignment_reference
  /\ args.chimera_reference = Parsed.alignment_reference

\* C3: in a completed run enable_consensus is never true while gcon.py is
\* absent: parsed true and helper absent gives false, helper present leaves
\* the parsed flag.
C3_NoConsensusWithoutHelper ==
  pc = "done" =>
     /\ ~(args.enable_consensus /\ HelperAbsent)
     /\ (Parsed.enable_consensus /\ HelperAbsent => args.enable_consensus = FALSE)
     /\ (~HelperAbsent => args.enable_consensus = Parsed.enable_consensus)

\* C3 witness: a completed run that switched consensus off.
C3_Witness ==
  pc = "done" /\ Parsed.enable_consensus /\ HelperAbsent /\ ~args.enable_consensus

\* C4: a num_processes below 0 or a distance outside [MIN_DIST, MAX_DIST]
\* never lets the run complete, whatever the environment; a RangeError is
\* raised only for the option that is out of range, so a value inside its
\* bounds (the boundaries included) passes its validator; and a completed
\* run holds both values unchanged.
C4_NumericBounds ==
  /\ (~NumProcInRange \/ ~DistanceInRange) => pc # "done"
  /\ (Terminated /\ ParseReturned /\ (~NumProcInRange \/ ~DistanceInRange)) =>
        (pc = "raised" /\ exc \in {"ValueError", "RangeError"})
  /\ (exc = "RangeError" /\ calls[Len(calls)] = "validate_int") => ~NumProcInRange
  /\ (exc = "RangeError" /\ calls[Len(calls)] = "validate_float") => ~DistanceInRange
  /\ (pc = "done" /\ NumProcInRange /\ DistanceInRange) =>
        (args.nproc = Parsed.nproc /\ args.distance = Parsed.distance)
  /\ (Terminated /\ ConsensusRuleRan /\ NumProcInRange /\ DistanceInRange) => pc = "done"

\* C4 witness: a completed run on the boundary values.
C4_Witness ==
  pc = "done" /\ args.nproc = 0 /\ args.distance = MAX_DIST

\* C5: after an abort on a fatal rule the namespace callers can reach does
\* not carry the effects of the recoverable rules.
C5_NoPartialConfigurationExposed ==
  (pc = "raised" /\ exc \in {"ValueError", "RangeError"}) =>
     /\ args.chimera_reference = Parsed.chimera_reference
     /\ args.enable_consensus = Parsed.enable_consensus

\* C6: running the rules again on the configuration of a completed run, in
\* the same environment, never fails, leaves the configuration as the first
\* run produced it and logs nothing new.
C6_ReconcileIdempotent ==
  first # None =>
     /\ pc # "raised"
     /\ exc = "None"
     /\ args = first[1].args
     /\ logged = first[1].logged

\* C6 witness: a further run has completed on a configuration in which the
\* first run applied both the fallback and the degradation.
C6_Witness ==
  /\ pc = "done" /\ runs >= 1
  /\ Warnings("chimera_fallback") = 1 /\ Warnings("consensus_disabled") = 1
  /\ Parsed.chimera_reference # Parsed.alignment_reference

C8_OneWarningPerRecoverableCondition ==
  (Terminated /\ AlignmentRuleRan /\ AlignmentLocated
      /\ NumProcInRange /\ DistanceInRange) =>
     /\ pc = "done"
     /\ exc = "None"
     /\ ErrorsLogged = 0
     /\ Warnings("chimera_fallback") = (IF ChimeraLocated THEN 0 ELSE 1)
     /\ Warnings("consensus_disabled") =
          (IF Parsed.enable_consensus /\ HelperAbsent THEN 1 ELSE 0)
     /\ Len(logged) = Warnings("chimera_fallback") + Warnings("consensus_disabled")

\* C8 witness: both recoverable conditions held and two warnings were logged.
C8_Witness ==
  /\ pc = "done"
  /\ ~ChimeraLocated /\ Parsed.enable_consensus /\ HelperAbsent
  /\ Len(logged) = 2

\* C9: once the version option has been processed the run has ended with
\* SystemExit and nothing else was done: no logger initialisation, no probe,
\* no fallback or degradation, no numeric validation.
C9_VersionExitsImmediately ==
  CountIn(calls, "print_version") > 0 =>
     /\ pc = "raised"
     /\ exc = "SystemExit"
     /\ calls = <<"print_version">>
     /\ logged = <<>>
     /\ args.chimera_reference = Parsed.chimera_reference
     /\ args.enable_consensus = Parsed.enable_consensus

\* C9 witness: the version was printed although the rest of the command
\* line and the environment would have failed reconciliation.
C9_Witness ==
  /\ CountIn(calls, "print_version") = 1
  /\ pc = "raised"
  /\ ~AlignmentLocated /\ ~DistanceInRange

\* C10: a completed run differs from the parsed values in at most
\* chimera_reference and enable_consensus; chimera_reference differs only if
\* the chimera reference was not located, enable_consensus only if it was
\* parsed true and the helper was absent, and it is never switched on.
C10_OnlyTwoFieldsChange ==
  pc = "done" =>
     /\ \A f \in DOMAIN Parsed \ {"chimera_reference", "enable_consensus"} :
           args[f] = Parsed[f]
     /\ DOMAIN args = DOMAIN Parsed
     /\ (args.chimera_reference # Parsed.chimera_reference => ~ChimeraLocated)
     /\ (args.enable_consensus # Parsed.enable_consensus =>
           Parsed.enable_consensus /\ HelperAbsent)
     /\ (~Parsed.enable_consensus => ~args.enable_consensus)

\* C10 witness: a completed run in which both fields changed and the user
\* chose the alignment reference, the distance and the clustering method.
C10_Witness ==
  /\ pc = "done"
  /\ args.chimera_reference # Parsed.chimera_reference
  /\ args.enable_consensus # Parsed.enable_consensus
  /\ argv.alignment_reference # None /\ argv.distance # None
  /\ argv.clusteringMethod # None

====
